---------------------------- MODULE Spec2Model ----------------------------
(***************************************************************************)
(* DairyClime: heat-stress index (ITU) for dairy cows.                     *)
(*                                                                         *)
(* Model of src/DairyClime.py: the index formula, the four-band            *)
(* classification and colour, the period diagnosis, the period-dependent   *)
(* aggregation preparar_df_plot (daily / 5-day / monthly / climatology)    *)
(* and the Streamlit script that drives them.                              *)
(*                                                                         *)
(* Numbers.  Temperatures and humidities are integers in tenths (Ta = 300  *)
(* is 30.0 C, UR = 600 is 60.0 %).  An index value is the exact rational   *)
(* num / (den * Escala): calcular_itu gives den = 1, a mean of n values    *)
(* gives den = n.  den = 0 is NaN, the value pandas gives the mean of an   *)
(* empty bucket; every comparison with NaN is false, as in Python.         *)
(* Floating-point rounding error is not modelled.                          *)
(*                                                                         *)
(* Dates are day numbers, day 0 being 1 January of AnoBase.                *)
(***************************************************************************)
EXTENDS Integers, Sequences, FiniteSets, TLC

VARIABLES
    estado,     \* where the script run ended: "form" before any run
    entrada,    \* the widget values / arguments of the run
    df,         \* the daily series with its ITU and Classe columns
    cartao,     \* the result card: index, class, colour, recommendation
    resumo,     \* media_itu, classe_media, p_alerta, p_perigo, p_emerg, diag
    grafico     \* df_plot, titulo and the bar colours

vars == <<estado, entrada, df, cartao, resumo, grafico>>

-----------------------------------------------------------------------------
(* Bounds and input pools                                                  *)

\* largest number of records the fetch is asked to produce
MaxRegistros == 14

\* index values are kept in units of 1/Escala
Escala == 10000

\* year of day 0
AnoBase == 2020

\* number of calendar years the day numbers may span
MaxAnos == 3

\* the value written on a widget or result that the run did not produce
Nenhum == [nenhum |-> TRUE]

\* (Ta, UR) pairs in tenths, at least one in each band: their indices are
\* 65.15, 76.92, 79.72, 88.79 and 72.185
ValorPool ==
    << <<200, 500>>, <<280, 600>>, <<300, 600>>, <<350, 700>>, <<250, 550>> >>

\* manual inputs: the pool, the pairs whose index is exactly 70, 78, 82 and
\* the pairs whose index is the nearest above them (70.0002, 78.0005, 82.0001)
EntradasManuais ==
    { ValorPool[i] : i \in 1..Len(ValorPool) }
      \cup { <<243, 426>>, <<343, 213>>, <<343, 413>> }
      \cup { <<261, 239>>, <<338, 239>>, <<336, 457>> }
      \cup { <<100, 1000>>, <<143, 0>>, <<400, 1000>> }

\* first day of the period (1 January and 15 February of AnoBase)
PeriodStarts == {0, 45}

\* period lengths D in days; D <= 0 is an end date before the start date
PeriodLengths == {-2, 0, 1, 15, 16, 50, 90, 91, 200, 364, 365, 400}

\* offset of the first record from the start of the period
PrimeiroOffsets == {0, 1}

\* distance in days between consecutive records before any is dropped
Passos == {1, 3, 31}

-----------------------------------------------------------------------------
(* Arithmetic on index values                                              *)

NaN == [num |-> 0, den |-> 0]

IsNaN(x) == x.den = 0

\* x <= c for an integer literal c of the source; false when x is NaN
Leq(x, c) == x.den > 0 /\ x.num <= c * Escala * x.den

RECURSIVE SomaNum(_)
SomaNum(s) == IF s = << >> THEN 0 ELSE Head(s).num + SomaNum(Tail(s))

\* Series.mean() of a column of plain (den = 1) values
Media(s) == IF s = << >> THEN NaN ELSE [num |-> SomaNum(s), den |-> Len(s)]

\* f"{x:.1f}" of the value n/d: the nearest tenth, ties to even; "nan" for NaN
Fmt1(n, d) ==
    IF d = 0 THEN "nan"
    ELSE LET q == (10 * n) \div d
             r == (10 * n) % d
         IN  IF 2 * r > d \/ (2 * r = d /\ q % 2 = 1) THEN q + 1 ELSE q

FmtITU(x) == Fmt1(x.num, x.den * Escala)

FmtPct(p) == Fmt1(p.num, p.den)

-----------------------------------------------------------------------------
(* Calendar: what datetime / pandas compute from a date                    *)

Bissexto(y) == (y % 4 = 0 /\ y % 100 # 0) \/ y % 400 = 0

DiasNoMes(y, m) ==
    IF m = 2 THEN (IF Bissexto(y) THEN 29 ELSE 28)
    ELSE IF m \in {4, 6, 9, 11} THEN 30 ELSE 31

DiasNoAno(y) == IF Bissexto(y) THEN 366 ELSE 365

RECURSIVE DiasAntesDoAno(_)
DiasAntesDoAno(y) ==
    IF y <= AnoBase THEN 0 ELSE DiasAntesDoAno(y - 1) + DiasNoAno(y - 1)

RECURSIVE DiasAntesDoMes(_, _)
DiasAntesDoMes(y, m) ==
    IF m = 1 THEN DiasAntesDoAno(y)
    ELSE DiasAntesDoMes(y, m - 1) + DiasNoMes(y, m - 1)

\* the year, month and day of the month of every day number
Calendario ==
    [d \in 0..(DiasAntesDoAno(AnoBase + MaxAnos) - 1) |->
        LET y == CHOOSE yy \in AnoBase..(AnoBase + MaxAnos - 1) :
                    DiasAntesDoAno(yy) <= d /\ d < DiasAntesDoAno(yy + 1)
            m == CHOOSE mm \in 1..12 :
                    /\ DiasAntesDoMes(y, mm) <= d
                    /\ d < DiasAntesDoMes(y, mm) + DiasNoMes(y, mm)
        IN  [ano |-> y, mes |-> m, dia |-> d - DiasAntesDoMes(y, m) + 1]]

\* date.year, date.month, date.day
AnoDe(d) == Calendario[d].ano

MesDe(d) == Calendario[d].mes

DiaDe(d) == Calendario[d].dia

\* last day of month m of year y, the label pandas gives a month-end bin
FimDoMes(y, m) == DiasAntesDoMes(y, m) + DiasNoMes(y, m) - 1

\* (data_fim - data_ini).days + 1
Dias(data_ini, data_fim) == (data_fim - data_ini) + 1

-----------------------------------------------------------------------------
(* Pure functions of the source                                            *)

\* ITU = 0.8*Ta + (UR*(Ta - 14.3))/100 + 46.3, Ta and UR in tenths
calcular_itu(ta_c, ur_pct) ==
    [num |-> 800 * ta_c + ur_pct * (ta_c - 143) + 463000, den |-> 1]


\* classificar_itu with the first threshold exclusive (itu < 70)
classificar_itu_lt(itu) ==
    IF itu.den > 0 /\ itu.num < 70 * Escala * itu.den THEN "Normal"
    ELSE IF Leq(itu, 78) THEN "Alerta"
    ELSE IF Leq(itu, 82) THEN "Perigo"
    ELSE "Emergência"

classificar_itu(itu) ==
    IF Leq(itu, 70) THEN "Normal"
    ELSE IF Leq(itu, 78) THEN "Alerta"
    ELSE IF Leq(itu, 82) THEN "Perigo"
    ELSE "Emergência"

recomendacao_por_classe(classe) ==
    IF classe = "Normal" THEN "Conforto: manter água limpa e sombra"
    ELSE IF classe = "Alerta" THEN "Atenção: reforçar água e sombra"
    ELSE IF classe = "Perigo" THEN "Risco alto: usar ventilação e/ou aspersão"
    ELSE "Emergência: ação imediata"

\* cor_por_itu with the orange band ending at 80 instead of 82
cor_por_itu_80(itu) ==
    IF Leq(itu, 70) THEN "#2E7D32"
    ELSE IF Leq(itu, 78) THEN "#F9A825"
    ELSE IF Leq(itu, 80) THEN "#EF6C00"
    ELSE "#C62828"

cor_por_itu(itu) ==
    IF Leq(itu, 70) THEN "#2E7D32"
    ELSE IF Leq(itu, 78) THEN "#F9A825"
    ELSE IF Leq(itu, 82) THEN "#EF6C00"
    ELSE "#C62828"

\* diagnostico_periodo whose danger text interpolates p_alerta
diagnostico_periodo_troca(media_itu, p_alerta, p_perigo, p_emerg) ==
    IF Leq(media_itu, 70) THEN
        [texto |-> "conforto térmico", itu |-> FmtITU(media_itu), pct |-> << >>]
    ELSE IF Leq(media_itu, 78) THEN
        [texto |-> "alerta", itu |-> FmtITU(media_itu),
         pct |-> << [de |-> "p_alerta", valor |-> FmtPct(p_alerta)] >>]
    ELSE IF Leq(media_itu, 82) THEN
        [texto |-> "risco alto", itu |-> FmtITU(media_itu),
         pct |-> << [de |-> "p_alerta", valor |-> FmtPct(p_alerta)] >>]
    ELSE
        [texto |-> "crítico", itu |-> FmtITU(media_itu),
         pct |-> << [de |-> "p_emerg", valor |-> FmtPct(p_emerg)] >>]

\* The diagnosis text: which of the four templates was chosen, the formatted
\* mean it interpolates and the formatted percentages it interpolates, each
\* with the argument it was taken from.
diagnostico_periodo(media_itu, p_alerta, p_perigo, p_emerg) ==
    IF Leq(media_itu, 70) THEN
        [texto |-> "conforto térmico", itu |-> FmtITU(media_itu), pct |-> << >>]
    ELSE IF Leq(media_itu, 78) THEN
        [texto |-> "alerta", itu |-> FmtITU(media_itu),
         pct |-> << [de |-> "p_alerta", valor |-> FmtPct(p_alerta)] >>]
    ELSE IF Leq(media_itu, 82) THEN
        [texto |-> "risco alto", itu |-> FmtITU(media_itu),
         pct |-> << [de |-> "p_perigo", valor |-> FmtPct(p_perigo)] >>]
    ELSE
        [texto |-> "crítico", itu |-> FmtITU(media_itu),
         pct |-> << [de |-> "p_emerg", valor |-> FmtPct(p_emerg)] >>]

-----------------------------------------------------------------------------
(* preparar_df_plot                                                        *)

\* the ITU column of a frame
ColunaITU(d) == [i \in 1..Len(d) |-> d[i].ITU]

\* the rows of frame d dated from day a to day b
Entre(d, a, b) == SelectSeq(d, LAMBDA r : a <= r.Data /\ r.Data <= b)

\* strftime("%d/%m")
LabelDiaMes(d) == <<DiaDe(d), MesDe(d)>>

\* strftime("%b/%Y")
LabelMesAno(d) == <<MesDe(d), AnoDe(d)>>

mapa_mes ==
    [m \in 1..12 |->
        <<"Jan", "Fev", "Mar", "Abr", "Mai", "Jun",
          "Jul", "Ago", "Set", "Out", "Nov", "Dez">>[m]]

\* dias <= 15: df[["Data", "ITU"]] with a day/month label
PlotDiario(d) ==
    [i \in 1..Len(d) |->
        [Data |-> d[i].Data, ITU |-> d[i].ITU, Label |-> LabelDiaMes(d[i].Data)]]

\* resample("5D") with its bins anchored at the start of the period
Resample5D_ini(d, data_ini) ==
    IF d = << >> THEN << >>
    ELSE LET ultimo == d[Len(d)].Data
             nbins  == ((ultimo - data_ini) \div 5) + 1
         IN  [k \in 1..nbins |->
                LET a == data_ini + 5 * (k - 1)
                IN  [Data |-> a, ITU |-> Media(ColunaITU(Entre(d, a, a + 4))),
                     Label |-> LabelDiaMes(a)]]

\* set_index("Data")[["ITU"]].resample("5D").mean().reset_index(): 5-day bins,
\* closed and labelled on the left, the first starting on the day of the
\* first row, one row per bin up to the bin of the last row; the mean of a
\* bin without rows is NaN.  data_ini is not an input of the resampling.
Resample5D(d, data_ini) ==
    IF d = << >> THEN << >>
    ELSE LET primeiro == d[1].Data
             ultimo   == d[Len(d)].Data
             nbins    == ((ultimo - primeiro) \div 5) + 1
         IN  [k \in 1..nbins |->
                LET a == primeiro + 5 * (k - 1)
                IN  [Data |-> a, ITU |-> Media(ColunaITU(Entre(d, a, a + 4))),
                     Label |-> LabelDiaMes(a)]]

\* months are numbered 12 * year + (month - 1)
IndiceMes(d) == 12 * AnoDe(d) + (MesDe(d) - 1)

\* resample("M").mean().reset_index(): one row per calendar month from the
\* month of the first row to the month of the last row, dated on the last
\* day of the month; the mean of a month without rows is NaN.
ResampleM(d) ==
    IF d = << >> THEN << >>
    ELSE LET m1 == IndiceMes(d[1].Data)
             m2 == IndiceMes(d[Len(d)].Data)
         IN  [k \in 1..(m2 - m1 + 1) |->
                LET y == (m1 + k - 1) \div 12
                    m == ((m1 + k - 1) % 12) + 1
                    a == DiasAntesDoMes(y, m)
                    b == FimDoMes(y, m)
                IN  [Data |-> b, ITU |-> Media(ColunaITU(Entre(d, a, b))),
                     Label |-> LabelMesAno(b)]]

\* the members of a set of integers in ascending order
RECURSIVE Ordenado(_)
Ordenado(S) ==
    IF S = {} THEN << >>
    ELSE LET lo == CHOOSE x \in S : \A y \in S : x <= y
         IN  <<lo>> \o Ordenado(S \ {lo})

\* groupby("Mes") that emits a row for each of the twelve months
Climatologia12(d) ==
    [m \in 1..12 |->
        [Mes |-> m,
         ITU |-> Media(ColunaITU(SelectSeq(d, LAMBDA r : MesDe(r.Data) = m))),
         Label |-> mapa_mes[m]]]

\* groupby("Mes", as_index=False)["ITU"].mean(): one row per month number
\* present in the frame, in ascending order of the month number
Climatologia(d) ==
    LET meses == Ordenado({MesDe(d[i].Data) : i \in 1..Len(d)})
    IN  [k \in 1..Len(meses) |->
            [Mes |-> meses[k],
             ITU |-> Media(ColunaITU(SelectSeq(d, LAMBDA r : MesDe(r.Data) = meses[k]))),
             Label |-> mapa_mes[meses[k]]]]

\* preparar_df_plot with the monthly branch ending at dias <= 365
preparar_df_plot_365(d, data_ini, data_fim) ==
    LET dias == Dias(data_ini, data_fim)
    IN  IF dias <= 15 THEN [df_plot |-> PlotDiario(d), titulo |-> "ITU Diário"]
        ELSE IF dias <= 90 THEN
            [df_plot |-> Resample5D(d, data_ini), titulo |-> "ITU (Média a cada 5 dias)"]
        ELSE IF dias <= 365 THEN
            [df_plot |-> ResampleM(d), titulo |-> "ITU Médio Mensal"]
        ELSE
            [df_plot |-> Climatologia(d),
             titulo |-> "ITU Médio Mensal (média de todos os anos)"]

preparar_df_plot(d, data_ini, data_fim) ==
    LET dias == Dias(data_ini, data_fim)
    IN  IF dias <= 15 THEN [df_plot |-> PlotDiario(d), titulo |-> "ITU Diário"]
        ELSE IF dias <= 90 THEN
            [df_plot |-> Resample5D(d, data_ini), titulo |-> "ITU (Média a cada 5 dias)"]
        ELSE IF dias < 365 THEN
            [df_plot |-> ResampleM(d), titulo |-> "ITU Médio Mensal"]
        ELSE
            [df_plot |-> Climatologia(d),
             titulo |-> "ITU Médio Mensal (média de todos os anos)"]

\* plot_barras_itu: cores = [cor_por_itu(v) for v in df_plot["ITU"]]
CoresDasBarras(df_plot) == [i \in 1..Len(df_plot) |-> cor_por_itu(df_plot[i].ITU)]

-----------------------------------------------------------------------------
(* The series the retrieval step hands over                                *)

\* Rows on days lo + f + k*s (k = 0..n-1) that fall on or before day hi, the
\* k-th row carrying pool value (a + b*k) mod Len(ValorPool); when skip > 0
\* the rows k = skip and k = skip + 1 are missing (dropped by dropna).  Dict keys are
\* distinct dates and sort_values("Data") orders them, so every series is
\* strictly increasing in Data.
SerieGerada(lo, hi, f, s, n, a, b, skip) ==
    LET todas == [k \in 1..n |->
                    LET v == ValorPool[((a + b * (k - 1)) % Len(ValorPool)) + 1]
                    IN  [k |-> k - 1, Data |-> lo + f + (k - 1) * s,
                         Ta |-> v[1], UR |-> v[2]]]
        ficam == SelectSeq(todas, LAMBDA r :
                    /\ r.Data <= hi
                    /\ ~(skip > 0 /\ r.k \in {skip, skip + 1}))
    IN  [i \in 1..Len(ficam) |->
            [Data |-> ficam[i].Data, Ta |-> ficam[i].Ta, UR |-> ficam[i].UR]]

Series(lo, hi) ==
    { SerieGerada(lo, hi, f, s, n, a, b, skip) :
        f \in PrimeiroOffsets, s \in Passos, n \in 0..MaxRegistros,
        a \in 0..(Len(ValorPool) - 1), b \in {0, 1}, skip \in {0, 2} }

\* the periods the two date inputs allow: data_fim has min_value = data_ini
Periodos ==
    { [data_ini |-> i, data_fim |-> i + D - 1] :
        i \in PeriodStarts, D \in {L \in PeriodLengths : L >= 1} }

\* every pair of dates preparar_df_plot can be handed, the end date before the
\* start date included
Intervalos ==
    { p \in [data_ini : PeriodStarts,
             data_fim : { i + D - 1 : i \in PeriodStarts, D \in PeriodLengths }] :
        /\ p.data_fim >= 0
        /\ Dias(p.data_ini, p.data_fim) \in PeriodLengths }

Min(a, b) == IF a <= b THEN a ELSE b

Max(a, b) == IF a >= b THEN a ELSE b

-----------------------------------------------------------------------------
(* The script                                                              *)

\* df["ITU"] = calcular_itu(df["Ta"], df["UR"]);
\* df["Classe"] = df["ITU"].apply(classificar_itu)
ComColunas(bruto) ==
    [i \in 1..Len(bruto) |->
        LET v == calcular_itu(bruto[i].Ta, bruto[i].UR)
        IN  [Data |-> bruto[i].Data, Ta |-> bruto[i].Ta, UR |-> bruto[i].UR,
             ITU |-> v, Classe |-> classificar_itu(v)]]

Contagem(d, classe) == Len(SelectSeq(d, LAMBDA r : r.Classe = classe))

\* the share of the rows that are not Normal, whatever their class
PercentualNaoNormal(d, classe) ==
    [num |-> 100 * (Len(d) - Contagem(d, "Normal")), den |-> Len(d)]

\* (df["Classe"] == classe).mean() * 100
Percentual(d, classe) == [num |-> 100 * Contagem(d, classe), den |-> Len(d)]

\* lines 475-483
Resumir(d) ==
    LET media_itu == Media(ColunaITU(d))
        p_alerta  == Percentual(d, "Alerta")
        p_perigo  == Percentual(d, "Perigo")
        p_emerg   == Percentual(d, "Emergência")
    IN  [media_itu |-> media_itu,
         classe_media |-> classificar_itu(media_itu),
         p_alerta |-> p_alerta, p_perigo |-> p_perigo, p_emerg |-> p_emerg,
         diag |-> diagnostico_periodo(media_itu, p_alerta, p_perigo, p_emerg)]

\* lines 486-489
Plotar(d, data_ini, data_fim) ==
    LET r == preparar_df_plot(d, data_ini, data_fim)
    IN  [df_plot |-> r.df_plot, titulo |-> r.titulo,
         cores |-> CoresDasBarras(r.df_plot)]

Init ==
    /\ estado = "form"
    /\ entrada = Nenhum
    /\ df = << >>
    /\ cartao = Nenhum
    /\ resumo = Nenhum
    /\ grafico = Nenhum

\* Manual mode: one (Ta, UR) pair, the card, st.stop()
ModoManual ==
    /\ estado = "form"
    /\ \E e \in EntradasManuais :
        LET itu    == calcular_itu(e[1], e[2])
            classe == classificar_itu(itu)
        IN  /\ entrada' = [modo |-> "Manual", ta |-> e[1], ur |-> e[2]]
            /\ cartao' = [itu |-> itu, classe |-> classe, cor |-> cor_por_itu(itu),
                          rec |-> recomendacao_por_classe(classe)]
    /\ estado' = "manual"
    /\ UNCHANGED <<df, resumo, grafico>>

\* float(lat) or float(lon) raises ValueError: st.error, st.stop()
CoordenadasInvalidas ==
    /\ estado = "form"
    /\ \E p \in Periodos :
        entrada' = [modo |-> "Automático", data_ini |-> p.data_ini,
                    data_fim |-> p.data_fim]
    /\ estado' = "erro_coordenadas"
    /\ UNCHANGED <<df, cartao, resumo, grafico>>

\* obter_dados_nasa_power raises: st.error, st.exception, st.stop()
ErroNasaPower ==
    /\ estado = "form"
    /\ \E p \in Periodos :
        entrada' = [modo |-> "Automático", data_ini |-> p.data_ini,
                    data_fim |-> p.data_fim]
    /\ estado' = "erro_nasa"
    /\ UNCHANGED <<df, cartao, resumo, grafico>>

\* the script without the df.empty guard: the empty frame is summarised
SerieVazia_semGuarda ==
    /\ estado = "form"
    /\ \E p \in Periodos :
        /\ << >> \in Series(p.data_ini, p.data_fim)
        /\ entrada' = [modo |-> "Automático", data_ini |-> p.data_ini,
                       data_fim |-> p.data_fim]
        /\ grafico' = Plotar(<< >>, p.data_ini, p.data_fim)
    /\ df' = << >>
    /\ resumo' = Resumir(<< >>)
    /\ cartao' = [itu |-> NaN, classe |-> classificar_itu(NaN),
                  cor |-> cor_por_itu(NaN),
                  rec |-> recomendacao_por_classe(classificar_itu(NaN))]
    /\ estado' = "analisado"

\* df.empty: st.warning, st.stop()
SerieVazia ==
    /\ estado = "form"
    /\ \E p \in Periodos :
        /\ << >> \in Series(p.data_ini, p.data_fim)
        /\ entrada' = [modo |-> "Automático", data_ini |-> p.data_ini,
                       data_fim |-> p.data_fim]
    /\ df' = << >>
    /\ estado' = "sem_dados"
    /\ UNCHANGED <<cartao, resumo, grafico>>

\* the button handler on a series with rows: columns, summary, chart, card
Analisar ==
    /\ estado = "form"
    /\ \E p \in Periodos :
        \E bruto \in Series(p.data_ini, p.data_fim) :
            /\ bruto # << >>
            /\ LET d == ComColunas(bruto)
                   r == Resumir(d)
               IN  /\ entrada' = [modo |-> "Automático", data_ini |-> p.data_ini,
                                  data_fim |-> p.data_fim]
                   /\ df' = d
                   /\ resumo' = r
                   /\ grafico' = Plotar(d, p.data_ini, p.data_fim)
                   /\ cartao' = [itu |-> r.media_itu, classe |-> r.classe_media,
                                 cor |-> cor_por_itu(r.media_itu),
                                 rec |-> recomendacao_por_classe(r.classe_media)]
    /\ estado' = "analisado"

\* any later interaction reruns the script from the top; nothing is kept
NovaExecucao ==
    /\ estado # "form"
    /\ estado' = "form"
    /\ entrada' = Nenhum
    /\ df' = << >>
    /\ cartao' = Nenhum
    /\ resumo' = Nenhum
    /\ grafico' = Nenhum

Next ==
    \/ ModoManual
    \/ CoordenadasInvalidas
    \/ ErroNasaPower
    \/ SerieVazia
    \/ Analisar
    \/ NovaExecucao

Spec == Init /\ [][Next]_vars

-----------------------------------------------------------------------------
(* preparar_df_plot and plot_barras_itu called on their own                *)

\* one call of preparar_df_plot(df, data_ini, data_fim) on a series with rows
\* dated inside the two dates, followed by the bar colours of its result
ChamarPreparar ==
    /\ estado = "form"
    /\ \E p \in Intervalos :
        \E bruto \in Series(Min(p.data_ini, p.data_fim), Max(p.data_ini, p.data_fim)) :
            /\ bruto # << >>
            /\ entrada' = [modo |-> "preparar_df_plot", data_ini |-> p.data_ini,
                           data_fim |-> p.data_fim]
            /\ df' = ComColunas(bruto)
            /\ grafico' = Plotar(ComColunas(bruto), p.data_ini, p.data_fim)
    /\ estado' = "retornou"
    /\ UNCHANGED <<cartao, resumo>>

NextPreparar ==
    \/ ChamarPreparar
    \/ NovaExecucao

SpecPreparar == Init /\ [][NextPreparar]_vars

-----------------------------------------------------------------------------
(* Properties                                                              *)

\* v > c, stated on the exact rational, for a value that is not NaN
Acima(v, c) == v.num > c * Escala * v.den

\* the band table of the classifier: the class c of a value v
ClasseConforme(v, c) ==
    /\ c \in {"Normal", "Alerta", "Perigo", "Emergência"}
    /\ (c = "Normal") <=> ~Acima(v, 70)
    /\ (c = "Alerta") <=> (Acima(v, 70) /\ ~Acima(v, 78))
    /\ (c = "Perigo") <=> (Acima(v, 78) /\ ~Acima(v, 82))
    /\ (c = "Emergência") <=> Acima(v, 82)

\* C1: every classified index value (the manual index, each day of the
\* series, the period mean) is Normal when <= 70, Alerta when in (70, 78],
\* Perigo when in (78, 82] and Emergência when > 82; exactly 70 is Normal,
\* exactly 78 Alerta, exactly 82 Perigo, and the values just above them
\* (70.0002, 78.0005, 82.0001) fall in the next band.
C1_FaixasDaClassificacao ==
    /\ estado = "manual" =>
        /\ ClasseConforme(cartao.itu, cartao.classe)
        /\ cartao.itu.num = 700000 => cartao.classe = "Normal"
        /\ cartao.itu.num = 700002 => cartao.classe = "Alerta"
        /\ cartao.itu.num = 780000 => cartao.classe = "Alerta"
        /\ cartao.itu.num = 780005 => cartao.classe = "Perigo"
        /\ cartao.itu.num = 820000 => cartao.classe = "Perigo"
        /\ cartao.itu.num = 820001 => cartao.classe = "Emergência"
    /\ estado = "analisado" =>
        /\ \A i \in 1..Len(df) : ClasseConforme(df[i].ITU, df[i].Classe)
        /\ ClasseConforme(resumo.media_itu, resumo.classe_media)

\* a manual run whose index is exactly 78 and was classified Alerta
C1_Witness ==
    /\ estado = "manual"
    /\ cartao.itu = [num |-> 780000, den |-> 1]
    /\ cartao.classe = "Alerta"

\* the fixed colour of a class
CorDaClasse(c) ==
    CASE c = "Normal" -> "#2E7D32"
      [] c = "Alerta" -> "#F9A825"
      [] c = "Perigo" -> "#EF6C00"
      [] c = "Emergência" -> "#C62828"

\* C8: the colour given to an index value (the card of a manual run, the card
\* of the period mean, every bar of the chart) is the fixed colour of the
\* class classificar_itu gives that value: green for Normal, yellow for
\* Alerta, orange for Perigo, red for Emergência.
C8_CorSegueClasse ==
    /\ estado \in {"manual", "analisado"} =>
        /\ cartao.cor = CorDaClasse(cartao.classe)
        /\ cartao.classe = classificar_itu(cartao.itu)
    /\ estado = "analisado" =>
        /\ Len(grafico.cores) = Len(grafico.df_plot)
        /\ \A i \in 1..Len(grafico.df_plot) :
            grafico.cores[i] = CorDaClasse(classificar_itu(grafico.df_plot[i].ITU))

\* an analysed period whose chart has an orange and a green bar and whose
\* card is yellow
C8_Witness ==
    /\ estado = "analisado"
    /\ cartao.cor = "#F9A825"
    /\ \E i, j \in 1..Len(grafico.cores) :
        grafico.cores[i] = "#EF6C00" /\ grafico.cores[j] = "#2E7D32"

\* C6: the diagnosis template is the one of the class of the period mean, it
\* interpolates the formatted mean, and the only percentage it interpolates
\* is that class's own: p_alerta for Alerta, p_perigo for Perigo, p_emerg for
\* Emergência, none for Normal.
C6_DiagnosticoPelaFaixaDaMedia ==
    estado = "analisado" =>
        /\ ClasseConforme(resumo.media_itu, resumo.classe_media)
        /\ resumo.diag.itu = FmtITU(resumo.media_itu)
        /\ resumo.classe_media = "Normal" =>
            /\ resumo.diag.texto = "conforto térmico"
            /\ resumo.diag.pct = << >>
        /\ resumo.classe_media = "Alerta" =>
            /\ resumo.diag.texto = "alerta"
            /\ resumo.diag.pct =
                << [de |-> "p_alerta", valor |-> FmtPct(resumo.p_alerta)] >>
        /\ resumo.classe_media = "Perigo" =>
            /\ resumo.diag.texto = "risco alto"
            /\ resumo.diag.pct =
                << [de |-> "p_perigo", valor |-> FmtPct(resumo.p_perigo)] >>
        /\ resumo.classe_media = "Emergência" =>
            /\ resumo.diag.texto = "crítico"
            /\ resumo.diag.pct =
                << [de |-> "p_emerg", valor |-> FmtPct(resumo.p_emerg)] >>

\* a period whose mean is in the Perigo band, with days in Alerta and days in
\* Perigo, whose diagnosis interpolates p_perigo
C6_Witness ==
    /\ estado = "analisado"
    /\ resumo.classe_media = "Perigo"
    /\ resumo.p_alerta.num > 0
    /\ resumo.p_perigo.num > 0
    /\ resumo.p_alerta # resumo.p_perigo
    /\ resumo.diag.pct[1].de = "p_perigo"

\* the number of rows of the series whose class is c
NumDaClasse(c) == Cardinality({i \in 1..Len(df) : df[i].Classe = c})

\* the rational p equals 100 * k / n
ValePct(p, k, n) == p.den > 0 /\ p.num * n = 100 * k * p.den

\* C7: on a series with rows, p_alerta, p_perigo and p_emerg are each
\* 100 * (rows of that class) / (rows), every row has exactly one of the four
\* classes, and with p_normal = 100 * (Normal rows) / (rows) the four
\* percentages add up to 100.
C7_PercentuaisSomamCem ==
    estado = "analisado" =>
        LET n == Len(df)
            a == resumo.p_alerta
            p == resumo.p_perigo
            e == resumo.p_emerg
        IN  /\ n > 0
            /\ ValePct(a, NumDaClasse("Alerta"), n)
            /\ ValePct(p, NumDaClasse("Perigo"), n)
            /\ ValePct(e, NumDaClasse("Emergência"), n)
            /\ \A i \in 1..n :
                df[i].Classe \in {"Normal", "Alerta", "Perigo", "Emergência"}
            /\ n * ( a.num * p.den * e.den + p.num * a.den * e.den
                     + e.num * a.den * p.den )
                 + 100 * NumDaClasse("Normal") * a.den * p.den * e.den
               = 100 * n * a.den * p.den * e.den

\* a series with rows of all four classes
C7_Witness ==
    /\ estado = "analisado"
    /\ \A c \in {"Normal", "Alerta", "Perigo", "Emergência"} : NumDaClasse(c) > 0
    /\ resumo.p_alerta.num > 0

\* C9: no summary, card or chart is ever produced from a series without
\* rows: a run that gets an empty series ends in the "no data" warning with
\* nothing computed, and every run that ends analysed had rows.
C9_SerieVaziaNaoResume ==
    /\ (resumo # Nenhum \/ grafico # Nenhum) => Len(df) > 0
    /\ estado = "sem_dados" =>
        /\ df = << >>
        /\ resumo = Nenhum /\ grafico = Nenhum /\ cartao = Nenhum
    /\ estado = "analisado" => (df # << >> /\ resumo # Nenhum)

\* a run on an empty series that ended in the warning
C9_Witness ==
    /\ estado = "sem_dados"
    /\ df = << >>
    /\ resumo = Nenhum
    /\ entrada.modo = "Automático"

\* the rows of the series dated from day a to day b, as a set of indices
LinhasEntre(a, b) == {i \in 1..Len(df) : a <= df[i].Data /\ df[i].Data <= b}

\* the rows of the series in month number m of any year
LinhasDoMes(m) == {i \in 1..Len(df) : MesDe(df[i].Data) = m}

RECURSIVE SomaDasLinhas(_)
SomaDasLinhas(S) ==
    IF S = {} THEN 0
    ELSE LET i == CHOOSE x \in S : TRUE
         IN  df[i].ITU.num + SomaDasLinhas(S \ {i})

\* v is the mean index of the rows S of the series, S not empty
MediaDasLinhas(v, S) ==
    /\ S # {}
    /\ v.den > 0
    /\ v.num * Cardinality(S) = SomaDasLinhas(S) * v.den

Chamada == estado = "retornou"

DiasDaChamada == Dias(entrada.data_ini, entrada.data_fim)

\* C2: the granularity depends on D = (data_fim - data_ini).days + 1 alone,
\* the first matching branch winning: D <= 15 gives the daily rows,
\* 15 < D <= 90 rows five days apart, 90 < D < 365 rows dated on month ends,
\* D >= 365 rows keyed by month number; each with its own title, so 15 and 90
\* go to the lower branch, 364 is monthly and 365 is the climatology.
C2_GranularidadePorDias ==
    Chamada =>
        LET D == DiasDaChamada
            g == grafico.df_plot
        IN  /\ D <= 15 =>
                /\ grafico.titulo = "ITU Diário"
                /\ Len(g) = Len(df)
                /\ \A i \in 1..Len(g) :
                    g[i].Data = df[i].Data /\ g[i].ITU = df[i].ITU
            /\ (15 < D /\ D <= 90) =>
                /\ grafico.titulo = "ITU (Média a cada 5 dias)"
                /\ \A i \in 1..(Len(g) - 1) : g[i + 1].Data = g[i].Data + 5
            /\ (90 < D /\ D < 365) =>
                /\ grafico.titulo = "ITU Médio Mensal"
                /\ \A i \in 1..Len(g) :
                    g[i].Data = FimDoMes(AnoDe(g[i].Data), MesDe(g[i].Data))
            /\ D >= 365 =>
                /\ grafico.titulo = "ITU Médio Mensal (média de todos os anos)"
                /\ \A i \in 1..Len(g) : g[i].Mes \in 1..12
            /\ grafico.titulo \in
                {"ITU Diário", "ITU (Média a cada 5 dias)", "ITU Médio Mensal",
                 "ITU Médio Mensal (média de todos os anos)"}

\* a call with D = 365 that returned the climatology
C2_Witness ==
    /\ Chamada
    /\ DiasDaChamada = 365
    /\ grafico.titulo = "ITU Médio Mensal (média de todos os anos)"
    /\ Len(grafico.df_plot) = 12

\* C3: a call with data_fim before data_ini ends in an InvalidRangeError and
\* returns neither points nor a title.
C3_IntervaloInvertidoFalha ==
    (entrada # Nenhum /\ entrada.modo = "preparar_df_plot"
        /\ entrada.data_fim < entrada.data_ini) =>
            (estado = "InvalidRangeError" /\ grafico = Nenhum)

\* C4 as stated: for 15 < D <= 90 the k-th point is the window that starts on
\* day data_ini + 5k, its value the mean of the rows of that window and its
\* label that day, also when the first row is dated after data_ini.
C4_JanelasAncoradasNoInicio ==
    (Chamada /\ 15 < DiasDaChamada /\ DiasDaChamada <= 90) =>
        LET g == grafico.df_plot
        IN  /\ \A i \in 1..Len(df) :
                \E k \in 1..Len(g) :
                    df[i].Data \in g[k].Data..(g[k].Data + 4)
            /\ \A k \in 1..Len(g) :
                /\ g[k].Data = entrada.data_ini + 5 * (k - 1)
                /\ g[k].Label = <<DiaDe(g[k].Data), MesDe(g[k].Data)>>
                /\ MediaDasLinhas(g[k].ITU, LinhasEntre(g[k].Data, g[k].Data + 4))

\* C4 as amended: for 15 < D <= 90 the k-th point is the window that starts
\* on day (date of the first row) + 5k; the windows are consecutive, do not
\* overlap and run up to the one holding the last row, so every row is in
\* exactly one; a point's label is its window's first day and its value is
\* the mean of the rows of its window, NaN when the window has none.
C4_JanelasAncoradasNoPrimeiroRegistro ==
    (Chamada /\ 15 < DiasDaChamada /\ DiasDaChamada <= 90) =>
        LET g == grafico.df_plot
        IN  /\ Len(g) >= 1
            /\ \A i \in 1..Len(df) :
                Cardinality({k \in 1..Len(g) :
                    df[i].Data \in g[k].Data..(g[k].Data + 4)}) = 1
            /\ df[Len(df)].Data >= g[Len(g)].Data
            /\ \A k \in 1..Len(g) :
                /\ g[k].Data = df[1].Data + 5 * (k - 1)
                /\ g[k].Label = <<DiaDe(g[k].Data), MesDe(g[k].Data)>>
                /\ IF LinhasEntre(g[k].Data, g[k].Data + 4) = {}
                   THEN IsNaN(g[k].ITU)
                   ELSE MediaDasLinhas(g[k].ITU,
                                       LinhasEntre(g[k].Data, g[k].Data + 4))

\* a 5-day call whose first row is dated after data_ini and that returned at
\* least two windows, the first holding more than one row
C4_Witness ==
    /\ Chamada
    /\ 15 < DiasDaChamada /\ DiasDaChamada <= 90
    /\ df[1].Data > entrada.data_ini
    /\ Len(grafico.df_plot) >= 2
    /\ grafico.df_plot[1].ITU.den >= 2

C10_TodoPontoTemRegistros ==
    Chamada =>
        \A k \in 1..Len(grafico.df_plot) : ~IsNaN(grafico.df_plot[k].ITU)

=============================================================================
